---- MODULE Spec2Model ----
(***************************************************************************)
(* Model of rust/lance-core/src/levenshtein.rs: levenshtein_distance (the  *)
(* two-rolling-row edit distance) and find_best_suggestion (the closest    *)
(* candidate under the threshold input_len / 3).                           *)
(*                                                                         *)
(* A &str is a sequence of UTF-8 bytes; chars() decodes it into Unicode    *)
(* scalar values.  A Vec<usize> is a sequence; Rust index x is TLA+ index  *)
(* x + 1.  An Option is <<>> (None) or <<v>> (Some(v)); the same shape     *)
(* carries a computation that panicked (<<>>) or returned v (<<v>>).       *)
(***************************************************************************)
EXTENDS Integers, Sequences, FiniteSets, TLC

\* ------------------------------------------------------------- bounds

\* Longest string, in characters, of the bounded input domain.
MaxLen == 3

\* Longest candidate list of the bounded input domain.
MaxOptions == 2

\* The characters of the bounded input domain, as Unicode scalar values:
\* "a" (U+0061, one byte in UTF-8) and "e acute" (U+00E9, two bytes).
Alphabet == {97, 233}

\* ------------------------------------------------------------ strings

\* UTF-8 encoding of one scalar value (what a Rust string holds).
Utf8(c) ==
    IF c < 128 THEN <<c>>
    ELSE IF c < 2048 THEN <<192 + (c \div 64), 128 + (c % 64)>>
    ELSE IF c < 65536
         THEN <<224 + (c \div 4096), 128 + ((c \div 64) % 64), 128 + (c % 64)>>
    ELSE <<240 + (c \div 262144), 128 + ((c \div 4096) % 64),
           128 + ((c \div 64) % 64), 128 + (c % 64)>>

RECURSIVE Encode(_)
Encode(cs) == IF cs = <<>> THEN <<>> ELSE Utf8(Head(cs)) \o Encode(Tail(cs))

CharSeqs(len) == UNION {[1..k -> Alphabet] : k \in 0..len}

\* The bounded domain of strings: every string of at most MaxLen characters.
Strings == {Encode(cs) : cs \in CharSeqs(MaxLen)}

\* The bounded domain of candidate lists (duplicates and "" included).
OptionLists == UNION {[1..k -> Strings] : k \in 0..MaxOptions}

\* Number of bytes of the UTF-8 sequence that starts with byte b.
Utf8Width(b) ==
    IF b < 128 THEN 1 ELSE IF b < 224 THEN 2 ELSE IF b < 240 THEN 3 ELSE 4

\* s.chars().collect(): the scalar values of a string, in order.  from[x] is
\* what the iterator yields once it stands at byte x.
chars(s) ==
    LET from[x \in 1..(Len(s) + 1)] ==
            IF x > Len(s) THEN <<>>
            ELSE LET b0 == s[x]
                     w == Utf8Width(b0)
                     c == CASE w = 1 -> b0
                            [] w = 2 -> (b0 % 32) * 64 + (s[x + 1] % 64)
                            [] w = 3 -> (b0 % 16) * 4096 + (s[x + 1] % 64) * 64
                                        + (s[x + 2] % 64)
                            [] w = 4 -> (b0 % 8) * 262144 + (s[x + 1] % 64) * 4096
                                        + (s[x + 2] % 64) * 64 + (s[x + 3] % 64)
                 IN <<c>> \o from[x + w]
    IN from[1]

\* ------------------------------------------------------------ options

None == <<>>
Some(v) == <<v>>
IsSome(o) == Len(o) = 1
Unwrap(o) == o[1]

Min(x, y) == IF x <= y THEN x ELSE y

\* ------------------------------------------------- levenshtein_distance

\* row[x] of a Vec: in bounds iff x < row.len().
InBounds(row, x) == x >= 0 /\ x < Len(row)
At(row, x) == row[x + 1]
Set(row, x, v) == [row EXCEPT ![x + 1] = v]

\* Mutant of InitPrevRow: the row is zeroed like curr_row, not 0, 1, ..., n.
InitPrevRowZeroed(n) == [x \in 1..(n + 1) |-> 0]

\* let mut prev_row: Vec<usize> = (0..=n).collect();
InitPrevRow(n) == [x \in 1..(n + 1) |-> x - 1]

\* Mutant of InitCurrRow: vec![0; n], one cell short.
InitCurrRowShort(n) == [x \in 1..n |-> 0]

\* let mut curr_row: Vec<usize> = vec![0; n + 1];
InitCurrRow(n) == [x \in 1..(n + 1) |-> 0]

\* let cost = if s1_char == s2_char { 0 } else { 1 };
Cost(s1_char, s2_char) == IF s1_char = s2_char THEN 0 ELSE 1

\* Mutant of InnerCell: the deletion term prev_row[j + 1] + 1 is forgotten.
InnerCellNoDeletion(prev_row, curr_row, j, cost) ==
    Min(At(curr_row, j) + 1, At(prev_row, j) + cost)

\* (prev_row[j + 1] + 1).min(curr_row[j] + 1).min(prev_row[j] + cost)
InnerCell(prev_row, curr_row, j, cost) ==
    Min(Min(At(prev_row, j + 1) + 1, At(curr_row, j) + 1), At(prev_row, j) + cost)

\* Mutant of EarlyReturn: the first early return gives m back instead of n.
EarlyReturnWrongLength(m, n) ==
    IF m = 0 THEN Some(m) ELSE IF n = 0 THEN Some(m) ELSE None

\* Lines 23-28: if m == 0 { return n; } if n == 0 { return m; }
\* Some(value returned early), or None when the rows are needed.
EarlyReturn(m, n) ==
    IF m = 0 THEN Some(n) ELSE IF n = 0 THEN Some(m) ELSE None

\* The frame of a call levenshtein_distance(s1, s2) that has not run yet.
LevCall(s1, s2) ==
    [pc |-> "entry", s1 |-> s1, s2 |-> s2, s1_chars |-> <<>>, s2_chars |-> <<>>,
     m |-> 0, n |-> 0, prev_row |-> <<>>, curr_row |-> <<>>, i |-> 0, j |-> 0,
     ret |-> 0]

\* No call of levenshtein_distance is being stepped.
LevIdle == [LevCall(<<>>, <<>>) EXCEPT !.pc = "idle"]

\* Lines 18-32: decode, the two early returns, the two rows.
StepEntry(st) ==
    LET s1_chars == chars(st.s1)
        s2_chars == chars(st.s2)
        m == Len(s1_chars)
        n == Len(s2_chars)
        st1 == [st EXCEPT !.s1_chars = s1_chars, !.s2_chars = s2_chars,
                          !.m = m, !.n = n]
        early == EarlyReturn(m, n)
    IN IF IsSome(early) THEN [st1 EXCEPT !.pc = "done", !.ret = Unwrap(early)]
       ELSE [st1 EXCEPT !.pc = "outer", !.prev_row = InitPrevRow(n),
                        !.curr_row = InitCurrRow(n)]

\* Mutant of StepOuter: curr_row[0] = i + 1 is forgotten, so the inner loop
\* reads what the swapped-in row held two iterations ago.
StepOuterStaleFirstCell(st) ==
    IF ~InBounds(st.curr_row, 0) THEN [st EXCEPT !.pc = "panic"]
    ELSE [st EXCEPT !.pc = "inner", !.j = 0]

\* Lines 34-35: the head of an outer iteration, curr_row[0] = i + 1.
StepOuter(st) ==
    IF ~InBounds(st.curr_row, 0) THEN [st EXCEPT !.pc = "panic"]
    ELSE [st EXCEPT !.pc = "inner", !.curr_row = Set(@, 0, st.i + 1), !.j = 0]

\* Lines 36-41: one inner iteration, curr_row[j + 1] = ...
StepInner(st) ==
    LET j == st.j
        cost == Cost(st.s1_chars[st.i + 1], st.s2_chars[j + 1])
    IN IF ~(/\ InBounds(st.prev_row, j + 1) /\ InBounds(st.curr_row, j)
            /\ InBounds(st.prev_row, j) /\ InBounds(st.curr_row, j + 1))
       THEN [st EXCEPT !.pc = "panic"]
       ELSE [st EXCEPT !.curr_row =
                          Set(@, j + 1, InnerCell(st.prev_row, st.curr_row, j, cost)),
                       !.j = j + 1]

\* Line 42: std::mem::swap(&mut prev_row, &mut curr_row); next outer iteration.
StepSwap(st) ==
    [st EXCEPT !.prev_row = st.curr_row, !.curr_row = st.prev_row,
               !.i = st.i + 1, !.pc = "outer"]

\* Line 45: prev_row[n]
StepReturn(st) ==
    IF ~InBounds(st.prev_row, st.n) THEN [st EXCEPT !.pc = "panic"]
    ELSE [st EXCEPT !.pc = "done", !.ret = At(st.prev_row, st.n)]

LevRunning(st) == st.pc \in {"entry", "outer", "inner"}

\* One step of the function body, by program position.
LevStep(st) ==
    CASE st.pc = "entry" -> StepEntry(st)
      [] st.pc = "outer" /\ st.i < st.m -> StepOuter(st)
      [] st.pc = "outer" /\ st.i >= st.m -> StepReturn(st)
      [] st.pc = "inner" /\ st.j < st.n -> StepInner(st)
      [] st.pc = "inner" /\ st.j >= st.n -> StepSwap(st)

RECURSIVE LevRun(_)
LevRun(st) == IF LevRunning(st) THEN LevRun(LevStep(st)) ELSE st

\* A whole call: Some(distance), or None when the call panicked.
levenshtein_distance(s1, s2) ==
    LET st == LevRun(LevCall(s1, s2))
    IN IF st.pc = "done" THEN Some(st.ret) ELSE None

\* ------------------------------------------------ the tests' inputs

Letters ==
    <<"a", "b", "c", "d", "e", "f", "g", "h", "i", "j", "k", "l", "m",
      "n", "o", "p", "q", "r", "s", "t", "u", "v", "w", "x", "y", "z">>

\* The ASCII string literal spelled by a sequence of lower-case letters.
Str(cs) == [x \in 1..Len(cs) |-> 96 + (CHOOSE k \in 1..26 : Letters[k] = cs[x])]

vector == Str(<<"v", "e", "c", "t", "o", "r">>)
vacter == Str(<<"v", "a", "c", "t", "e", "r">>)
abc == Str(<<"a", "b", "c">>)

\* The argument pairs of test_levenshtein_distance.
TestDistancePairs ==
    { <<<<>>, <<>>>>, <<Str(<<"a">>), <<>>>>, <<<<>>, Str(<<"a">>)>>,
      <<abc, abc>>, <<abc, <<>>>>, <<<<>>, abc>>,
      <<Str(<<"k", "i", "t", "t", "e", "n">>),
        Str(<<"s", "i", "t", "t", "i", "n", "g">>)>>,
      <<Str(<<"s", "a", "t", "u", "r", "d", "a", "y">>),
        Str(<<"s", "u", "n", "d", "a", "y">>)>>,
      <<vector, Str(<<"v", "e", "c", "t", "r">>)>>,
      <<vector, Str(<<"v", "e", "x", "t", "o", "r">>)>>,
      <<vector, Str(<<"v", "v", "e", "c", "t", "o", "r">>)>>,
      <<abc, Str(<<"x", "y", "z">>)>> }

\* let options = vec!["vector", "id", "name"];  (the doc example)
DocOptions == <<vector, Str(<<"i", "d">>), Str(<<"n", "a", "m", "e">>)>>

\* let options = vec!["vector", "id", "name", "column", "table"];
TestOptions ==
    DocOptions \o <<Str(<<"c", "o", "l", "u", "m", "n">>),
                    Str(<<"t", "a", "b", "l", "e">>)>>

\* The calls of the doc example and of test_find_best_suggestion.
TestSuggestCalls ==
    { <<vacter, DocOptions>>,
      <<Str(<<"h", "e", "l", "l", "o">>), DocOptions>>,
      <<vacter, TestOptions>>,
      <<Str(<<"v", "e", "c", "t", "r">>), TestOptions>>,
      <<Str(<<"t", "b", "l", "e">>), TestOptions>>,
      <<Str(<<"h", "e", "l", "l", "o">>), TestOptions>>,
      <<Str(<<"x", "y", "z">>), TestOptions>>,
      <<Str(<<"v">>), TestOptions>>,
      <<<<>>, TestOptions>>,
      <<Str(<<"v", "e", "c", "o", "r">>),
        <<vector, Str(<<"v", "e", "n", "d", "o", "r">>)>>>> }

\* Every string find_best_suggestion is called on in this model.
SuggestStrings ==
    Strings \cup {c[1] : c \in TestSuggestCalls}
            \cup UNION {{c[2][x] : x \in 1..Len(c[2])} : c \in TestSuggestCalls}

\* levenshtein_distance is a pure function: its value on each pair of strings
\* of the domain, computed once by running the body above.
LevMemo ==
    [s1 \in SuggestStrings |->
        [s2 \in SuggestStrings |-> levenshtein_distance(s1, s2)]]

\* ------------------------------------------------- find_best_suggestion

\* Mutant of char_count: input.len(), the number of bytes.
char_count_bytes(s) == Len(s)

\* input.chars().count()
char_count(s) == Len(chars(s))

\* Mutant of TooShort: the empty-input check is forgotten.
TooShortNever(input_len) == FALSE

\* if input_len == 0 { return None; }
TooShort(input_len) == input_len = 0

\* Mutant of Threshold: the division rounds up instead of down.
ThresholdRoundedUp(input_len) == (input_len + 2) \div 3

\* let threshold = input_len / 3;
Threshold(input_len) == input_len \div 3

\* Mutant of Qualifies: < for <=, so a candidate at the threshold is refused.
QualifiesStrictly(distance, threshold) == distance < threshold

\* Mutant of Qualifies: an off-by-one in the comparison with the threshold.
QualifiesOffByOne(distance, threshold) == distance <= threshold + 1

\* if distance <= threshold
Qualifies(distance, threshold) == distance <= threshold

\* Mutant of Improves: <= for <, so a later tie replaces the current best.
ImprovesOnTie(distance, best_distance) == distance <= best_distance

\* if distance < *best_distance
Improves(distance, best_distance) == distance < best_distance

\* Lines 76-85: the running best after a candidate at the given distance.
\* The &'b str kept is the reference to options[k], modelled by k.
UpdateBest(best, k, distance, thr) ==
    IF Qualifies(distance, thr)
    THEN IF ~IsSome(best) THEN Some([option |-> k, distance |-> distance])
         ELSE IF Improves(distance, Unwrap(best).distance)
              THEN Some([option |-> k, distance |-> distance])
              ELSE best
    ELSE best

\* best_option.map(|(option, _)| option)
MapOption(best) == IF IsSome(best) THEN Some(Unwrap(best).option) ELSE None

VARIABLES
    lev,          \* the frame of the levenshtein_distance call being stepped
    pc,           \* position in find_best_suggestion
    input,        \* find_best_suggestion's input: &str
    options,      \* find_best_suggestion's options: &[impl AsRef<str>]
    input_len,
    threshold,
    best_option,  \* Option<(&str, usize)>
    next_option,  \* the position of the `for option in options` iterator
    result        \* find_best_suggestion's return value: Option<&str>

vars == <<lev, pc, input, options, input_len, threshold, best_option,
          next_option, result>>

fbsVars == <<pc, input, options, input_len, threshold, best_option,
             next_option, result>>

\* ---------------------------------------------------------------- init

FbsIdle ==
    /\ pc = "idle" /\ input = <<>> /\ options = <<>> /\ input_len = 0
    /\ threshold = 0 /\ best_option = None /\ next_option = 0 /\ result = None

FbsCall(in, opts) ==
    /\ pc = "entry" /\ input = in /\ options = opts /\ input_len = 0
    /\ threshold = 0 /\ best_option = None /\ next_option = 0 /\ result = None

\* A call levenshtein_distance(s1, s2) on any two strings of the domain.
InitDistance ==
    /\ \E s1 \in Strings, s2 \in Strings : lev = LevCall(s1, s2)
    /\ FbsIdle

\* A call find_best_suggestion(input, options) on any input and list.
InitSuggest ==
    /\ lev = LevIdle
    /\ \E in \in Strings, opts \in OptionLists : FbsCall(in, opts)

Init == InitDistance \/ InitSuggest

\* ------------------------------------------------------------- actions

LevEntry ==
    /\ lev.pc = "entry"
    /\ lev' = StepEntry(lev)
    /\ UNCHANGED fbsVars

LevOuter ==
    /\ lev.pc = "outer" /\ lev.i < lev.m
    /\ lev' = StepOuter(lev)
    /\ UNCHANGED fbsVars

LevInner ==
    /\ lev.pc = "inner" /\ lev.j < lev.n
    /\ lev' = StepInner(lev)
    /\ UNCHANGED fbsVars

LevSwap ==
    /\ lev.pc = "inner" /\ lev.j >= lev.n
    /\ lev' = StepSwap(lev)
    /\ UNCHANGED fbsVars

LevReturn ==
    /\ lev.pc = "outer" /\ lev.i >= lev.m
    /\ lev' = StepReturn(lev)
    /\ UNCHANGED fbsVars

\* Lines 67-73.
FbsEntry ==
    /\ pc = "entry"
    /\ input_len' = char_count(input)
    /\ IF TooShort(input_len')
       THEN /\ pc' = "done"
            /\ result' = None
            /\ UNCHANGED <<threshold, best_option, next_option>>
       ELSE /\ pc' = "loop"
            /\ threshold' = Threshold(input_len')
            /\ best_option' = None
            /\ next_option' = 0
            /\ UNCHANGED result
    /\ UNCHANGED <<lev, input, options>>

\* Lines 74-86: one iteration of `for option in options`.  The call of
\* levenshtein_distance it makes is taken whole, as the value of LevMemo.
FbsIter ==
    /\ pc = "loop" /\ next_option < Len(options)
    /\ LET k == next_option + 1
           distance == LevMemo[input][options[k]]
       IN IF ~IsSome(distance)
          THEN /\ pc' = "panic"
               /\ UNCHANGED <<best_option, next_option>>
          ELSE /\ best_option' = UpdateBest(best_option, k, Unwrap(distance), threshold)
               /\ next_option' = k
               /\ UNCHANGED pc
    /\ UNCHANGED <<lev, input, options, input_len, threshold, result>>

\* Line 88.
FbsReturn ==
    /\ pc = "loop" /\ next_option >= Len(options)
    /\ result' = MapOption(best_option)
    /\ pc' = "done"
    /\ UNCHANGED <<lev, input, options, input_len, threshold, best_option,
                   next_option>>

Next ==
    \/ LevEntry \/ LevOuter \/ LevInner \/ LevSwap \/ LevReturn
    \/ FbsEntry \/ FbsIter \/ FbsReturn

Spec == Init /\ [][Next]_vars

\* The calls the repository's own tests and doc examples make.
InitTests ==
    \/ /\ \E p \in TestDistancePairs : lev = LevCall(p[1], p[2])
       /\ FbsIdle
    \/ /\ lev = LevIdle
       /\ \E c \in TestSuggestCalls : FbsCall(c[1], c[2])

SpecTests == InitTests /\ [][Next]_vars

\* ----------------------------------------------- the reference matrix

\* The full-matrix recurrence over character sequences a and b:
\* cell(i,0) = i, cell(0,j) = j,
\* cell(i,j) = min(cell(i-1,j) + 1, cell(i,j-1) + 1, cell(i-1,j-1) + cost).
RECURSIVE cell(_, _, _, _)
cell(a, b, i, j) ==
    IF j = 0 THEN i
    ELSE IF i = 0 THEN j
    ELSE Min(Min(cell(a, b, i - 1, j) + 1, cell(a, b, i, j - 1) + 1),
             cell(a, b, i - 1, j - 1) + (IF a[i] = b[j] THEN 0 ELSE 1))

\* The minimum number of single-character edits turning string s1 into s2.
EditDistance(s1, s2) ==
    LET a == chars(s1)
        b == chars(s2)
    IN cell(a, b, Len(a), Len(b))

LevDone == lev.pc = "done"

\* ------------------------------------------------------------- claims

\* C1: for all strings a and b, empty ones included, the value
\* levenshtein_distance(a, b) returns is the minimum number of insertions,
\* deletions and substitutions, cell(len(a), len(b)) of the reference
\* recurrence.
C1_ExactDistance == LevDone => lev.ret = EditDistance(lev.s1, lev.s2)

\* A call on two non-empty strings of different lengths, one of them with a
\* two-byte character, has returned a distance of 2.
C1_Witness ==
    /\ LevDone /\ lev.m >= 2 /\ lev.n >= 2 /\ lev.m # lev.n
    /\ Len(lev.s1) > lev.m /\ lev.ret = 2

\* C5: levenshtein_distance(a, b) = levenshtein_distance(b, a): the value the
\* stepped call on (s1, s2) returns is the value of the call on (s2, s1).
C5_Symmetric == LevDone => Some(lev.ret) = levenshtein_distance(lev.s2, lev.s1)

\* A call whose arguments differ in length (one outer iteration over a row of
\* four cells; the mirrored call makes three over a row of two) has returned.
C5_Witness == LevDone /\ lev.m = 1 /\ lev.n = 3 /\ lev.ret = 2

\* C6: triangle inequality: the value returned for (s1, s2) is at most
\* distance(s1, b) + distance(b, s2) for every string b of the domain.
C6_Triangle ==
    LevDone =>
        \A b \in Strings :
            LET ab == levenshtein_distance(lev.s1, b)
                bc == levenshtein_distance(b, lev.s2)
            IN IsSome(ab) /\ IsSome(bc) /\ lev.ret <= Unwrap(ab) + Unwrap(bc)

\* A call has returned 2 and some middle string b is at distance 1 from both
\* arguments: the inequality is tight there.
C6_Witness ==
    /\ LevDone /\ lev.m > 0 /\ lev.n > 0 /\ lev.ret = 2
    /\ \E b \in Strings : /\ levenshtein_distance(lev.s1, b) = Some(1)
                          /\ levenshtein_distance(b, lev.s2) = Some(1)
                          /\ b # <<>>

\* C9: the two rolling rows refine the full matrix.  For non-empty a and b:
\* before the first outer iteration prev_row[x] = x; whenever the outer loop
\* is at its head after i iterations (after the swap) prev_row[x] = cell(i, x)
\* for every x in 0..len(b); inside iteration i + 1 prev_row is still row i
\* and the cells 0..j of curr_row, the only ones of it the loop body reads,
\* already hold row i + 1 written in this iteration, never what the
\* swapped-in row held before; the value returned is cell(len(a), len(b)).
C9_RollingRows ==
    LET a == lev.s1_chars
        b == lev.s2_chars
    IN /\ lev.pc \in {"outer", "inner"} =>
            /\ Len(lev.prev_row) = lev.n + 1 /\ Len(lev.curr_row) = lev.n + 1
            /\ \A x \in 0..lev.n : At(lev.prev_row, x) = cell(a, b, lev.i, x)
            /\ lev.i = 0 => \A x \in 0..lev.n : At(lev.prev_row, x) = x
       /\ lev.pc = "inner" =>
            \A x \in 0..lev.j : At(lev.curr_row, x) = cell(a, b, lev.i + 1, x)
       /\ (LevDone /\ lev.m > 0 /\ lev.n > 0) =>
            lev.ret = cell(a, b, lev.m, lev.n)

\* The outer loop is at its head after two swaps: curr_row is the row that
\* was prev_row one iteration ago, and it differs from the row to compute.
C9_Witness ==
    /\ lev.pc = "outer" /\ lev.i = 2 /\ lev.i < lev.m
    /\ At(lev.curr_row, 0) = 1
    /\ At(lev.prev_row, lev.n) = cell(lev.s1_chars, lev.s2_chars, 2, lev.n)

FbsDone == pc = "done"

\* floor(char_count(input) / 3), from the string itself.
Limit == Len(chars(input)) \div 3

\* The distance of candidate k (1-based position in options) to the input.
Dist(k) == Unwrap(LevMemo[input][options[k]])

\* C2: for every non-empty input, find_best_suggestion returns the first
\* candidate in list order whose distance is the smallest among those with
\* distance <= floor(char_count(input) / 3), and None iff there is none; a
\* later candidate at the same distance never replaces it, and what is
\* returned is an element of the list.
C2_FirstClosest ==
    FbsDone =>
        LET len == Len(chars(input))
            d == [k \in 1..Len(options) |-> Dist(k)]
            qualifying == {k \in 1..Len(options) : d[k] <= len \div 3}
            r == Unwrap(result)
        IN len > 0 =>
              IF qualifying = {} THEN result = None
              ELSE /\ IsSome(result)
                   /\ r \in qualifying
                   /\ \A k \in qualifying :
                          d[r] < d[k] \/ (d[r] = d[k] /\ r <= k)

\* Two different candidates tie at distance 1 within the threshold and the
\* first one was returned.
C2_Witness ==
    /\ FbsDone /\ Len(options) = 2 /\ options[1] # options[2]
    /\ Dist(1) = 1 /\ Dist(2) = 1 /\ Limit = 1
    /\ result = Some(1)

\* C3: neither the running best candidate, at any step of the scan, nor the
\* candidate returned is at a distance from the input that exceeds
\* floor(char_count(input) / 3).
C3_WithinThreshold ==
    (IsSome(best_option) \/ IsSome(result)) =>
        LET limit == Limit
        IN /\ IsSome(best_option) =>
                 /\ Unwrap(best_option).distance <= limit
                 /\ Dist(Unwrap(best_option).option) <= limit
           /\ IsSome(result) => Dist(Unwrap(result)) <= limit

\* A candidate exactly at the threshold was returned although the list also
\* holds a candidate just beyond it.
C3_Witness ==
    /\ FbsDone /\ Len(options) = 2 /\ Limit = 1
    /\ Dist(1) = 2 /\ Dist(2) = 1
    /\ result = Some(2)

C10_ShortInput ==
    FbsDone =>
        LET len == Len(chars(input))
            equal == {k \in 1..Len(options) : options[k] = input}
        IN (len = 1 \/ len = 2) =>
              /\ threshold = 0
              /\ IF equal = {} THEN result = None
                 ELSE /\ IsSome(result)
                      /\ Unwrap(result) \in equal
                      /\ \A k \in equal : Unwrap(result) <= k

\* A two-character input of three bytes occurs twice in the list and the
\* first occurrence was returned.
C10_Witness ==
    /\ FbsDone /\ Len(chars(input)) = 2 /\ Len(input) = 3
    /\ options = <<input, input>>
    /\ result = Some(1)

\* C7 as claimed: suggest("vacter", ["vector", "id", "name"]) returns
\* "vector", which is at distance 1 from "vacter", under the threshold
\* floor(6 / 3) = 2.
C7_DocExampleDistanceOne ==
    (FbsDone /\ input = vacter /\ options = DocOptions) =>
        /\ threshold = 2
        /\ IsSome(result)
        /\ options[Unwrap(result)] = vector
        /\ LevMemo[input][options[Unwrap(result)]] = Some(1)

\* C7 as amended: suggest("vacter", ["vector", "id", "name"]) returns
\* "vector", which is at distance 2 from "vacter" (a for e and e for o),
\* exactly the threshold floor(6 / 3) = 2.
C7_DocExample ==
    (FbsDone /\ input = vacter /\ options = DocOptions) =>
        /\ threshold = 2
        /\ IsSome(result)
        /\ options[Unwrap(result)] = vector
        /\ LevMemo[input][options[Unwrap(result)]] = Some(2)

\* The doc example's call has returned its first option.
C7_Witness ==
    /\ FbsDone /\ input = vacter /\ options = DocOptions
    /\ result = Some(1)

\* Neither function has reached a panic (an index outside a row).
NoPanic == lev.pc # "panic" /\ pc # "panic"

\* The call this behaviour makes has returned.
Returned ==
    \/ lev.pc = "done" /\ pc = "idle"
    \/ lev.pc = "idle" /\ pc = "done"

\* What holds at every step of a call of either function.
C8_Safe ==
    /\ NoPanic
    /\ lev.pc \in {"outer", "inner"} =>
          /\ Len(lev.prev_row) = lev.n + 1 /\ Len(lev.curr_row) = lev.n + 1
          /\ lev.i \in 0..lev.m /\ lev.j \in 0..lev.n
          /\ lev.pc = "inner" => lev.i < lev.m
    /\ LevDone => lev.ret \in Nat
    /\ FbsDone =>
          \/ result = None
          \/ IsSome(result) /\ Unwrap(result) \in 1..Len(options)

\* The number of steps a call of levenshtein_distance still has to take:
\* one for the prologue and, unless it returns early, len(a) outer iterations
\* of len(b) + 2 steps each and the final read of prev_row[n].
LevFuel(st) ==
    CASE st.pc = "entry" ->
            LET m == Len(chars(st.s1))
                n == Len(chars(st.s2))
            IN IF m = 0 \/ n = 0 THEN 1 ELSE 1 + m * (n + 2) + 1
      [] st.pc = "outer" -> (st.m - st.i) * (st.n + 2) + 1
      [] st.pc = "inner" ->
            (st.n - st.j) + 1 + (st.m - st.i - 1) * (st.n + 2) + 1
      [] OTHER -> 0

\* The number of steps a call of find_best_suggestion still has to take: one
\* for the prologue and, unless the input is empty, one per candidate left
\* and the final map.
FbsFuel ==
    CASE pc = "entry" ->
            IF Len(chars(input)) = 0 THEN 1 ELSE 1 + Len(options) + 1
      [] pc = "loop" -> (Len(options) - next_option) + 1
      [] OTHER -> 0

Fuel == LevFuel(lev) + FbsFuel

\* C8: both operations are total.  At every step of a call of either
\* function (empty input, empty list and duplicate candidates included) no
\* row is indexed outside 0..len(b) and nothing panics; a call that has not
\* returned can take a step, and every step leaves exactly one step fewer to
\* take, so the call returns after a number of steps fixed by its inputs;
\* levenshtein_distance then returns a non-negative integer and
\* find_best_suggestion None or a candidate of the list.
C8_Total ==
    /\ [](/\ C8_Safe
          /\ Fuel \in Nat
          /\ Fuel = 0 <=> Returned
          /\ ~Returned => ENABLED Next)
    /\ [][Fuel' = Fuel - 1]_vars

\* A call of levenshtein_distance on two strings of the longest length has
\* filled the last cell, index len(b), of the last row.
C8_Witness ==
    /\ lev.pc = "inner" /\ lev.m = MaxLen /\ lev.n = MaxLen
    /\ lev.i = lev.m - 1 /\ lev.j = lev.n
    /\ NoPanic

====
